---------------------------- MODULE Spec2Model ----------------------------
(***************************************************************************)
(* A model of the PDF summarizer: the word chunker (split_text_smart), the *)
(* OCR cache (load_or_generate_ocr), the text stages (deduplicate_ocr,     *)
(* clean_text) and the map/reduce summarization of summarize_pdf_report    *)
(* (summarizer_pipeline.py) and main (summarizers.py).                     *)
(*                                                                         *)
(* Strings are sequences of one-character strings, so that str.split,      *)
(* str.join and str.strip are computed and not assumed.                    *)
(***************************************************************************)
EXTENDS Integers, Sequences, FiniteSets, TLC

VARIABLES
    \* ---- split_text_smart ----
    text,           \* the argument text (of split_text_smart, of clean_text)
    max_words,      \* the argument max_words
    min_words,      \* the argument min_words
    chunks,         \* the returned list of chunks
    cpc,            \* "start" before the call, "done" after it
    \* ---- load_or_generate_ocr ----
    file,           \* the bytes now at pdf_path
    ocr_cache,      \* the file CACHE_DIR/<basename>.ocr.txt
    hash_file,      \* the file CACHE_DIR/<basename>.hash
    linesep,        \* os.linesep of the platform
    lpc,            \* per caller: the line load_or_generate_ocr is at
    current_hash,   \* per caller: the local current_hash
    saved_hash,     \* per caller: the local saved_hash
    cached_text,    \* per caller: the local cached_text
    ocr_text,       \* per caller: the local ocr_text
    ret,            \* per caller: the value returned
    ocr_calls,      \* per caller: calls of extract_text_from_images in this call
    hashed,         \* per caller: the bytes get_file_hash read (history)
    ocred,          \* per caller: the bytes extract_text_from_images read (history)
    changed,        \* whether the bytes at pdf_path have changed (history)
    pre,            \* per caller: the cache and the last call, as the call began (history)
    prev,           \* the last completed call (history)
    \* ---- the map/reduce summarization ----
    driver,         \* "summarize_pdf_report" or "main"
    nchunks,        \* len(chunks)
    has_callback,   \* whether progress_callback is given
    fut,            \* per chunk index: the state of its future
    fres,           \* per chunk index: what summarize_chunk_with_id returned
    yielded,        \* the futures as_completed has yielded
    loop_i,         \* the loop variable i of enumerate(as_completed(futures), 1)
    results,        \* the list results
    combined_summary,
    stop_process,   \* st.session_state.stop_process
    final_summary,  \* st.session_state.final_summary
    chunk_results,  \* st.session_state.chunk_results
    ppc,            \* where the run is
    reduce_calls,   \* how many reduce-stage inference calls were issued
    reduce_input,   \* the combined text the reduce-stage call was given
    retval,         \* what summarize_pdf_report returned
    progress,       \* what progress_callback received
    order,          \* the chunk indices in the order as_completed yielded them (history)
    map_calls,      \* per chunk index: how many map-stage inference calls were issued
    reduce_prompt,  \* the prompt the reduce-stage call sent
    reduce_output,  \* what the reduce-stage call returned
    \* ---- the text stages before the chunker ----
    text_pdf,       \* the text layer, extract_text_from_pdf's value
    text_ocr,       \* load_or_generate_ocr's value
    clean_ocr,      \* deduplicate_ocr's value
    combined,       \* the text given to split_text_smart
    cleaned,        \* clean_text's value
    tpc             \* where the text stages are

chunkVars == <<text, max_words, min_words, chunks, cpc>>
cacheVars == <<file, ocr_cache, hash_file, linesep, lpc, current_hash, saved_hash,
               cached_text, ocr_text, ret, ocr_calls, hashed, ocred, changed, pre, prev>>

pipeVars == <<driver, nchunks, has_callback, fut, fres, yielded, loop_i, results,
              combined_summary, stop_process, final_summary, chunk_results, ppc,
              reduce_calls, reduce_input, retval, progress, order,
              map_calls, reduce_prompt, reduce_output>>
textVars == <<text_pdf, text_ocr, clean_ocr, combined, cleaned, tpc>>

vars == <<chunkVars, cacheVars, pipeVars, textVars>>

(***************************************************************************)
(* Bounds of the model.                                                    *)
(***************************************************************************)
MaxLen == 5          \* longest arbitrary text, in characters
MaxWordCount == 12   \* most words of a regular text "w w ... w"
MaxMaxWords == 5     \* largest max_words tried
MaxMinWords == 3     \* largest min_words tried
MaxPages == 1        \* most pages of a document
MaxChunks == 3       \* most chunks of a run

(***************************************************************************)
(* Strings.                                                                *)
(***************************************************************************)
Alphabet == {"a", "b", " ", "\n"}

\* str.isspace for one character
IsSpace(c) == c \in {" ", "\n", "\r", "\t"}

RECURSIVE SplitFrom(_, _, _, _)
SplitFrom(s, i, cur, acc) ==
    IF i > Len(s)
    THEN IF cur = <<>> THEN acc ELSE Append(acc, cur)
    ELSE IF IsSpace(s[i])
         THEN SplitFrom(s, i + 1, <<>>, IF cur = <<>> THEN acc ELSE Append(acc, cur))
         ELSE SplitFrom(s, i + 1, Append(cur, s[i]), acc)

\* text.split(): the maximal runs of non-whitespace characters, in order
str_split(s) == SplitFrom(s, 1, <<>>, <<>>)

RECURSIVE JoinFrom(_, _, _)
JoinFrom(sep, parts, i) ==
    IF i > Len(parts) THEN <<>>
    ELSE IF i = Len(parts) THEN parts[i]
    ELSE parts[i] \o sep \o JoinFrom(sep, parts, i + 1)

\* sep.join(parts)
str_join(sep, parts) == JoinFrom(sep, parts, 1)

\* the parts from the i-th on, one after the other
RECURSIVE ConcatAll(_, _)
ConcatAll(parts, i) == IF i > Len(parts) THEN <<>> ELSE parts[i] \o ConcatAll(parts, i + 1)

RECURSIVE LStrip(_)
LStrip(s) == IF s # <<>> /\ IsSpace(Head(s)) THEN LStrip(Tail(s)) ELSE s

RECURSIVE RStrip(_)
RStrip(s) ==
    IF s # <<>> /\ IsSpace(s[Len(s)]) THEN RStrip(SubSeq(s, 1, Len(s) - 1)) ELSE s

\* s.strip()
str_strip(s) == RStrip(LStrip(s))

(***************************************************************************)
(* split_text_smart                                                        *)
(***************************************************************************)
\* the for loop of split_text_smart from word i on: <<chunks, current_chunk>>
RECURSIVE ScanWords(_, _, _, _, _)
ScanWords(words, i, maxw, chs, current_chunk) ==
    IF i > Len(words) THEN <<chs, current_chunk>>
    ELSE LET cur == Append(current_chunk, words[i])
         IN  IF Len(cur) >= maxw
             THEN ScanWords(words, i + 1, maxw, Append(chs, str_join(<<" ">>, cur)), <<>>)
             ELSE ScanWords(words, i + 1, maxw, chs, cur)

\* a wrong tail: the remainder is always emitted as its own chunk
TailNoMerge(chs, current_chunk, minw) ==
    IF current_chunk # <<>>
    THEN Append(chs, str_join(<<" ">>, current_chunk))
    ELSE chs

\* a wrong tail: the merge test is <= instead of <
TailMergeLeq(chs, current_chunk, minw) ==
    IF current_chunk # <<>>
    THEN IF Len(current_chunk) <= minw /\ chs # <<>>
         THEN [chs EXCEPT ![Len(chs)] = @ \o <<" ">> \o str_join(<<" ">>, current_chunk)]
         ELSE Append(chs, str_join(<<" ">>, current_chunk))
    ELSE chs

\* a wrong tail: a short remainder is dropped instead of merged
TailDrop(chs, current_chunk, minw) ==
    IF current_chunk # <<>>
    THEN IF Len(current_chunk) < minw /\ chs # <<>>
         THEN chs
         ELSE Append(chs, str_join(<<" ">>, current_chunk))
    ELSE chs

\* the tail of split_text_smart: merge a short remainder into the last chunk
SplitTail(chs, current_chunk, minw) ==
    IF current_chunk # <<>>
    THEN IF Len(current_chunk) < minw /\ chs # <<>>
         THEN [chs EXCEPT ![Len(chs)] = @ \o <<" ">> \o str_join(<<" ">>, current_chunk)]
         ELSE Append(chs, str_join(<<" ">>, current_chunk))
    ELSE chs

split_text_smart(t, maxw, minw) ==
    LET scanned == ScanWords(str_split(t), 1, maxw, <<>>, <<>>)
    IN  SplitTail(scanned[1], scanned[2], minw)

(***************************************************************************)
(* load_or_generate_ocr and the OCR cache                                  *)
(***************************************************************************)
Procs == {1, 2}

\* the decimal digit of a page number or version
Digit(i) == <<"0", "1", "2", "3", "4", "5", "6", "7", "8", "9">>[i + 1]

\* what pytesseract.image_to_string returns for a page: a blank page, or text
\* with an inner line break and trailing whitespace (the engine ends lines
\* with "\n"; it writes no carriage return)
PageTexts == {<<" ">>, <<"x", "\n", "y", " ">>}

\* the documents: the bytes of a file, told apart by a version, with the text
\* the OCR engine reads from each page image (no page at all included)
Docs == [ver : {1, 2}, pages : UNION {[1..n -> PageTexts] : n \in 0..MaxPages}]

RECURSIVE HexOf(_)
HexOf(s) ==
    IF s = <<>> THEN <<>>
    ELSE <<CASE Head(s) = "x" -> "a" [] Head(s) = "y" -> "b"
             [] Head(s) = " " -> "c" [] OTHER -> "d">> \o HexOf(Tail(s))

\* get_file_hash: the md5 hex digest, a whitespace-free string that differs
\* for different bytes
get_file_hash(d) ==
    <<Digit(d.ver)>> \o ConcatAll([i \in 1..Len(d.pages) |-> <<"f">> \o HexOf(d.pages[i])], 1)

\* ocr_with_index: "[Page {index + 1} - OCR]\n{text.strip()}", the marker
\* written [P<n>]
ocr_with_index(index, pagetext) ==
    <<"[", "P", Digit(index + 1), "]", "\n">> \o str_strip(pagetext)

\* extract_text_from_images: the pages' OCR texts joined by "\n"
extract_text_from_images(d) ==
    str_join(<<"\n">>, [i \in 1..Len(d.pages) |-> ocr_with_index(i - 1, d.pages[i])])

\* f.write in text mode: "\n" is written as os.linesep
RECURSIVE WriteText(_, _)
WriteText(s, sep) ==
    IF s = <<>> THEN <<>>
    ELSE (IF Head(s) = "\n" THEN sep ELSE <<Head(s)>>) \o WriteText(Tail(s), sep)

\* f.read in text mode (universal newlines): "\r\n" and "\r" are read as "\n"
RECURSIVE ReadText(_)
ReadText(b) ==
    IF b = <<>> THEN <<>>
    ELSE IF Head(b) = "\r"
         THEN <<"\n">> \o ReadText(IF Len(b) >= 2 /\ b[2] = "\n" THEN Tail(Tail(b)) ELSE Tail(b))
         ELSE <<Head(b)>> \o ReadText(Tail(b))

NoFile == [exists |-> FALSE, data |-> <<>>]
FileOf(bytes) == [exists |-> TRUE, data |-> bytes]

NoDoc == [ver |-> 0, pages |-> <<>>]
NoPrev == [called |-> FALSE, fresh |-> FALSE, doc |-> NoDoc, ret |-> <<>>]
NoPre == [ocr_cache |-> NoFile, hash_file |-> NoFile, prev |-> NoPrev]

\* no run is under way
PipeUnstarted ==
    /\ nchunks = 0 /\ has_callback = FALSE
    /\ fut = <<>> /\ fres = <<>> /\ yielded = {} /\ loop_i = 0 /\ results = <<>>
    /\ combined_summary = <<>> /\ stop_process = FALSE /\ final_summary = <<>>
    /\ chunk_results = <<>> /\ ppc = "off" /\ reduce_calls = 0
    /\ reduce_input = <<>> /\ retval = <<>> /\ progress = <<>> /\ order = <<>>
    /\ map_calls = <<>> /\ reduce_prompt = <<>> /\ reduce_output = <<>>

PipeIdle == driver = "none" /\ PipeUnstarted

\* the text stages are not run at all
TextIdle ==
    /\ text_pdf = <<>> /\ text_ocr = <<>> /\ clean_ocr = <<>> /\ combined = <<>>
    /\ cleaned = <<>> /\ tpc = "off"

\* the cache directory is empty and no caller holds anything
CacheFresh ==
    /\ ocr_cache = NoFile
    /\ hash_file = NoFile
    /\ current_hash = [p \in Procs |-> <<>>]
    /\ saved_hash = [p \in Procs |-> <<>>]
    /\ cached_text = [p \in Procs |-> <<>>]
    /\ ocr_text = [p \in Procs |-> <<>>]
    /\ ret = [p \in Procs |-> <<>>]
    /\ ocr_calls = [p \in Procs |-> 0]
    /\ hashed = [p \in Procs |-> NoDoc]
    /\ ocred = [p \in Procs |-> NoDoc]
    /\ changed = FALSE
    /\ pre = [p \in Procs |-> NoPre]
    /\ prev = NoPrev

\* load_or_generate_ocr is not called at all
CacheIdle ==
    /\ file = NoDoc
    /\ linesep = <<"\n">>
    /\ lpc = [p \in Procs |-> "idle"]
    /\ CacheFresh

\* split_text_smart is not called at all
ChunkIdle ==
    /\ text = <<>> /\ max_words = 1 /\ min_words = 0 /\ chunks = <<>> /\ cpc = "off"

Platforms == {<<"\n">>, <<"\r", "\n">>}

CacheInit ==
    /\ file \in Docs
    /\ linesep \in Platforms
    /\ lpc = [p \in Procs |-> "idle"]
    /\ CacheFresh
    /\ ChunkIdle
    /\ PipeIdle
    /\ TextIdle

\* a caller enters load_or_generate_ocr(pdf_path)
Start(p) ==
    /\ lpc[p] \in {"idle", "done"}
    /\ lpc' = [lpc EXCEPT ![p] = "L71"]
    /\ current_hash' = [current_hash EXCEPT ![p] = <<>>]
    /\ saved_hash' = [saved_hash EXCEPT ![p] = <<>>]
    /\ cached_text' = [cached_text EXCEPT ![p] = <<>>]
    /\ ocr_text' = [ocr_text EXCEPT ![p] = <<>>]
    /\ ret' = [ret EXCEPT ![p] = <<>>]
    /\ ocr_calls' = [ocr_calls EXCEPT ![p] = 0]
    /\ hashed' = [hashed EXCEPT ![p] = NoDoc]
    /\ ocred' = [ocred EXCEPT ![p] = NoDoc]
    /\ pre' = [pre EXCEPT ![p] = [ocr_cache |-> ocr_cache, hash_file |-> hash_file,
                                  prev |-> prev]]
    /\ UNCHANGED <<file, ocr_cache, hash_file, linesep, changed, prev>>
    /\ UNCHANGED <<chunkVars, pipeVars, textVars>>

\* current_hash = get_file_hash(pdf_path)
GetHash(p) ==
    /\ lpc[p] = "L71"
    /\ current_hash' = [current_hash EXCEPT ![p] = get_file_hash(file)]
    /\ hashed' = [hashed EXCEPT ![p] = file]
    /\ lpc' = [lpc EXCEPT ![p] = "L74"]
    /\ UNCHANGED <<file, ocr_cache, hash_file, linesep, saved_hash, cached_text,
                   ocr_text, ret, ocr_calls, ocred, changed, pre, prev>>
    /\ UNCHANGED <<chunkVars, pipeVars, textVars>>

\* if os.path.exists(ocr_cache) and os.path.exists(hash_file)
CheckExists(p) ==
    /\ lpc[p] = "L74"
    /\ lpc' = [lpc EXCEPT ![p] =
                  IF ocr_cache.exists /\ hash_file.exists THEN "L75" ELSE "L83"]
    /\ UNCHANGED <<file, ocr_cache, hash_file, linesep, current_hash, saved_hash,
                   cached_text, ocr_text, ret, ocr_calls, hashed, ocred, changed, pre, prev>>
    /\ UNCHANGED <<chunkVars, pipeVars, textVars>>

\* saved_hash = f.read().strip()
ReadHash(p) ==
    /\ lpc[p] = "L75"
    /\ saved_hash' = [saved_hash EXCEPT ![p] = str_strip(ReadText(hash_file.data))]
    /\ lpc' = [lpc EXCEPT ![p] = "L77"]
    /\ UNCHANGED <<file, ocr_cache, hash_file, linesep, current_hash, cached_text,
                   ocr_text, ret, ocr_calls, hashed, ocred, changed, pre, prev>>
    /\ UNCHANGED <<chunkVars, pipeVars, textVars>>

\* cached_text = f.read()
ReadCache(p) ==
    /\ lpc[p] = "L77"
    /\ cached_text' = [cached_text EXCEPT ![p] = ReadText(ocr_cache.data)]
    /\ lpc' = [lpc EXCEPT ![p] = "L79"]
    /\ UNCHANGED <<file, ocr_cache, hash_file, linesep, current_hash, saved_hash,
                   ocr_text, ret, ocr_calls, hashed, ocred, changed, pre, prev>>
    /\ UNCHANGED <<chunkVars, pipeVars, textVars>>

\* a wrong hit test: the stored hash is not compared
IsHitNoHash(saved, current, cached) == str_strip(cached) # <<>>

\* saved_hash == current_hash and cached_text.strip()
IsHit(saved, current, cached) == saved = current /\ str_strip(cached) # <<>>

\* if saved_hash == current_hash and cached_text.strip(): return cached_text
Compare(p) ==
    /\ lpc[p] = "L79"
    /\ IF IsHit(saved_hash[p], current_hash[p], cached_text[p])
       THEN /\ ret' = [ret EXCEPT ![p] = cached_text[p]]
            /\ prev' = [called |-> TRUE, fresh |-> TRUE, doc |-> hashed[p],
                        ret |-> cached_text[p]]
            /\ lpc' = [lpc EXCEPT ![p] = "done"]
       ELSE /\ lpc' = [lpc EXCEPT ![p] = "L83"]
            /\ UNCHANGED <<ret, prev>>
    /\ UNCHANGED <<file, ocr_cache, hash_file, linesep, current_hash, saved_hash,
                   cached_text, ocr_text, ocr_calls, hashed, ocred, changed, pre>>
    /\ UNCHANGED <<chunkVars, pipeVars, textVars>>

\* ocr_text = extract_text_from_images(pdf_path)
RunOcr(p) ==
    /\ lpc[p] = "L83"
    /\ ocr_text' = [ocr_text EXCEPT ![p] = extract_text_from_images(file)]
    /\ ocr_calls' = [ocr_calls EXCEPT ![p] = @ + 1]
    /\ ocred' = [ocred EXCEPT ![p] = file]
    /\ lpc' = [lpc EXCEPT ![p] = "L84"]
    /\ UNCHANGED <<file, ocr_cache, hash_file, linesep, current_hash, saved_hash,
                   cached_text, ret, hashed, changed, pre, prev>>
    /\ UNCHANGED <<chunkVars, pipeVars, textVars>>

\* open(ocr_cache, 'w'): the file is created or truncated
OpenCache(p) ==
    /\ lpc[p] = "L84"
    /\ ocr_cache' = FileOf(<<>>)
    /\ lpc' = [lpc EXCEPT ![p] = "L85"]
    /\ UNCHANGED <<file, hash_file, linesep, current_hash, saved_hash, cached_text,
                   ocr_text, ret, ocr_calls, hashed, ocred, changed, pre, prev>>
    /\ UNCHANGED <<chunkVars, pipeVars, textVars>>

\* f.write(ocr_text), and the file is closed
WriteCache(p) ==
    /\ lpc[p] = "L85"
    /\ ocr_cache' = FileOf(WriteText(ocr_text[p], linesep))
    /\ lpc' = [lpc EXCEPT ![p] = "L86"]
    /\ UNCHANGED <<file, hash_file, linesep, current_hash, saved_hash, cached_text,
                   ocr_text, ret, ocr_calls, hashed, ocred, changed, pre, prev>>
    /\ UNCHANGED <<chunkVars, pipeVars, textVars>>

\* open(hash_file, 'w'): the file is created or truncated
OpenHash(p) ==
    /\ lpc[p] = "L86"
    /\ hash_file' = FileOf(<<>>)
    /\ lpc' = [lpc EXCEPT ![p] = "L87"]
    /\ UNCHANGED <<file, ocr_cache, linesep, current_hash, saved_hash, cached_text,
                   ocr_text, ret, ocr_calls, hashed, ocred, changed, pre, prev>>
    /\ UNCHANGED <<chunkVars, pipeVars, textVars>>

\* a wrong store: saved_hash is written where current_hash is meant
WriteHashSaved(p) ==
    /\ lpc[p] = "L87"
    /\ hash_file' = FileOf(WriteText(saved_hash[p], linesep))
    /\ lpc' = [lpc EXCEPT ![p] = "L88"]
    /\ UNCHANGED <<file, ocr_cache, linesep, current_hash, saved_hash, cached_text,
                   ocr_text, ret, ocr_calls, hashed, ocred, changed, pre, prev>>
    /\ UNCHANGED <<chunkVars, pipeVars, textVars>>

\* f.write(current_hash), and the file is closed
WriteHash(p) ==
    /\ lpc[p] = "L87"
    /\ hash_file' = FileOf(WriteText(current_hash[p], linesep))
    /\ lpc' = [lpc EXCEPT ![p] = "L88"]
    /\ UNCHANGED <<file, ocr_cache, linesep, current_hash, saved_hash, cached_text,
                   ocr_text, ret, ocr_calls, hashed, ocred, changed, pre, prev>>
    /\ UNCHANGED <<chunkVars, pipeVars, textVars>>

\* return ocr_text
ReturnOcr(p) ==
    /\ lpc[p] = "L88"
    /\ ret' = [ret EXCEPT ![p] = ocr_text[p]]
    /\ prev' = [called |-> TRUE, fresh |-> TRUE, doc |-> hashed[p], ret |-> ocr_text[p]]
    /\ lpc' = [lpc EXCEPT ![p] = "done"]
    /\ UNCHANGED <<file, ocr_cache, hash_file, linesep, current_hash, saved_hash,
                   cached_text, ocr_text, ocr_calls, hashed, ocred, changed, pre>>
    /\ UNCHANGED <<chunkVars, pipeVars, textVars>>

\* one line of load_or_generate_ocr
Step(p) ==
    \/ GetHash(p) \/ CheckExists(p) \/ ReadHash(p) \/ ReadCache(p) \/ Compare(p)
    \/ RunOcr(p) \/ OpenCache(p) \/ WriteCache(p) \/ OpenHash(p) \/ WriteHash(p)
    \/ ReturnOcr(p)

\* the environment: the bytes at pdf_path change
ModifyFile ==
    /\ \E d \in Docs \ {file} : file' = d
    /\ changed' = TRUE
    /\ UNCHANGED <<ocr_cache, hash_file, linesep, lpc, current_hash, saved_hash,
                   cached_text, ocr_text, ret, ocr_calls, hashed, ocred, pre, prev>>
    /\ UNCHANGED <<chunkVars, pipeVars, textVars>>

\* the environment: a cache file is removed, or the cached text is blanked
DamageCache ==
    /\ \/ ocr_cache.exists /\ ocr_cache' = NoFile /\ UNCHANGED hash_file
       \/ hash_file.exists /\ hash_file' = NoFile /\ UNCHANGED ocr_cache
       \/ ocr_cache.exists /\ ocr_cache.data # <<" ">>
            /\ ocr_cache' = FileOf(<<" ">>) /\ UNCHANGED hash_file
    /\ prev' = [prev EXCEPT !.fresh = FALSE]
    /\ UNCHANGED <<file, linesep, lpc, current_hash, saved_hash, cached_text,
                   ocr_text, ret, ocr_calls, hashed, ocred, changed, pre>>
    /\ UNCHANGED <<chunkVars, pipeVars, textVars>>

\* calls one after the other by one caller; the file and the cache change
\* between calls only
SeqNext ==
    \/ Start(1)
    \/ Step(1)
    \/ lpc[1] \in {"idle", "done"} /\ ModifyFile
    \/ lpc[1] \in {"idle", "done"} /\ DamageCache

SpecCacheSeq == CacheInit /\ [][SeqNext]_vars

\* both callers have entered load_or_generate_ocr
ConcInit ==
    /\ file \in Docs
    /\ linesep \in Platforms
    /\ lpc = [p \in Procs |-> "L71"]
    /\ CacheFresh
    /\ ChunkIdle
    /\ PipeIdle
    /\ TextIdle

\* two runs at once on one path, one call each, with no lock; the file
\* changes at most once meanwhile
ConcNext ==
    \/ \E p \in Procs : Step(p)
    \/ ~changed /\ ModifyFile

SpecCacheConc == ConcInit /\ [][ConcNext]_vars

(***************************************************************************)
(* The map/reduce summarization of summarize_pdf_report and of main.       *)
(* A text here is a sequence of fragments.                                 *)
(***************************************************************************)
\* the substitution token of the prompt templates
Placeholder == "{text}"

\* what the backend may answer: any text, the token's characters included
Responses == {<<"s1">>, <<"s2", Placeholder>>}

\* the reduction template read from final_prompt_path: some text around one token
final_prompt_template == <<"Summarize: ", Placeholder, " End.">>

\* f"\n\nThe final summary should be concise and not exceed {page_limit} A4 pages."
PageLimitText == <<"\n\nThe final summary should be concise and not exceed n A4 pages.">>

RECURSIVE ReplaceFrom(_, _, _, _)
ReplaceFrom(s, old, new, i) ==
    IF i > Len(s) THEN <<>>
    ELSE (IF s[i] = old THEN new ELSE <<s[i]>>) \o ReplaceFrom(s, old, new, i + 1)

\* s.replace(old, new): every occurrence in s is replaced, and what was put
\* in is not scanned again
str_replace(s, old, new) == ReplaceFrom(s, old, new, 1)

\* main sends the final prompt through summarize_chunk_with_id(0,
\* combined_summary, final_prompt, model), which replaces the token again
MainPrompt(final_prompt, summary) == str_replace(final_prompt, Placeholder, summary)

\* query_llama3's value when the request fails
QueryFailed == <<"Model query failed.">>

NoContent == <<"No content extracted from PDF.">>

\* f"... Error in chunk {i}: {str(e)}"
ErrorText(n) == <<"Error in chunk ", Digit(n)>>

\* the order of str on the first characters of the fragments
FragRank(f) ==
    CASE f = "Model query failed." -> 1
      [] f = "s1" -> 2
      [] f = "s2" -> 3
      [] f = "Error in chunk " -> 5
      [] OTHER -> 4

RECURSIVE TextLess(_, _)
TextLess(a, b) ==
    IF b = <<>> THEN FALSE
    ELSE IF a = <<>> THEN TRUE
    ELSE IF FragRank(Head(a)) # FragRank(Head(b)) THEN FragRank(Head(a)) < FragRank(Head(b))
    ELSE TextLess(Tail(a), Tail(b))

\* the order of the tuples (index, text)
TupleLess(a, b) == a[1] < b[1] \/ (a[1] = b[1] /\ TextLess(a[2], b[2]))

RECURSIVE InsertSorted(_, _)
InsertSorted(sorted, x) ==
    IF sorted = <<>> THEN <<x>>
    ELSE IF TupleLess(x, Head(sorted)) THEN <<x>> \o sorted
    ELSE <<Head(sorted)>> \o InsertSorted(Tail(sorted), x)

RECURSIVE SortFrom(_, _, _)
SortFrom(rs, k, acc) ==
    IF k > Len(rs) THEN acc ELSE SortFrom(rs, k + 1, InsertSorted(acc, rs[k]))

\* a wrong reassembly: the results are left in completion order
list_unsorted(rs) == rs

\* results.sort()
list_sort(rs) == SortFrom(rs, 1, <<>>)

\* "\n\n".join(text for _, text in results)
join_summaries(rs) == str_join(<<"\n\n">>, [k \in 1..Len(rs) |-> rs[k][2]])

Finished == {"returned", "raised"}
NoResult == <<0, <<>>>>

\* a run is about to begin; main's session may hold the summary of an earlier
\* run and a stop flag
PipeInit ==
    /\ driver \in {"summarize_pdf_report", "main"}
    /\ nchunks \in 0..MaxChunks
    /\ has_callback \in (IF driver = "main" THEN {FALSE} ELSE BOOLEAN)
    /\ fut = <<>> /\ fres = <<>> /\ yielded = {} /\ loop_i = 0 /\ results = <<>>
    /\ combined_summary = <<>>
    /\ stop_process \in (IF driver = "main" THEN BOOLEAN ELSE {FALSE})
    /\ \E old \in {<<>>, <<"s1">>} :
          /\ final_summary = (IF driver = "main" THEN old ELSE <<>>)
          /\ chunk_results = (IF driver = "main" /\ old # <<>> THEN <<<<1, old>>>> ELSE <<>>)
    /\ ppc = "begin" /\ reduce_calls = 0
    /\ reduce_input = <<>> /\ retval = <<>> /\ progress = <<>> /\ order = <<>>
    /\ map_calls = <<>> /\ reduce_prompt = <<>> /\ reduce_output = <<>>
    /\ ChunkIdle
    /\ CacheIdle
    /\ TextIdle

\* a wrong callback: the message is dropped
NotifyNothing(msg) == progress

\* progress_callback(msg), when a callback is given
Notify(msg) == IF has_callback THEN Append(progress, msg) ELSE progress

\* a wrong start of main: the earlier summary is not cleared
MainBeginKeepsSummary ==
    /\ driver = "main" /\ ppc = "begin"
    /\ chunk_results' = <<>>
    /\ stop_process' = FALSE
    /\ ppc' = "submit"
    /\ UNCHANGED <<driver, nchunks, has_callback, fut, fres, yielded, loop_i, results,
                   combined_summary, final_summary, reduce_calls, reduce_input, retval, progress, order>>
    /\ UNCHANGED <<map_calls, reduce_prompt, reduce_output>>
    /\ UNCHANGED <<chunkVars, cacheVars, textVars>>

\* main, the button pressed: the earlier results are cleared, the text is
\* extracted and split (lines 134-170)
MainBegin ==
    /\ driver = "main" /\ ppc = "begin"
    /\ final_summary' = <<>>
    /\ chunk_results' = <<>>
    /\ stop_process' = FALSE
    /\ ppc' = "submit"
    /\ UNCHANGED <<driver, nchunks, has_callback, fut, fres, yielded, loop_i, results,
                   combined_summary, reduce_calls, reduce_input, retval, progress, order>>
    /\ UNCHANGED <<map_calls, reduce_prompt, reduce_output>>
    /\ UNCHANGED <<chunkVars, cacheVars, textVars>>

\* summarize_pdf_report up to the chunk count (lines 146-170): with no chunk
\* it returns at once
ReportBegin ==
    /\ driver = "summarize_pdf_report" /\ ppc = "begin"
    /\ IF nchunks = 0
       THEN /\ progress' = (IF has_callback THEN progress \o <<<<"extract", 0>>, <<"chunking", 0>>>>
                            ELSE progress)
            /\ retval' = NoContent
            /\ ppc' = "done"
       ELSE /\ progress' = (IF has_callback
                            THEN progress \o <<<<"extract", 0>>, <<"chunking", 0>>,
                                              <<"count", nchunks>>>>
                            ELSE progress)
            /\ ppc' = "submit"
            /\ UNCHANGED retval
    /\ UNCHANGED <<driver, nchunks, has_callback, fut, fres, yielded, loop_i, results,
                   combined_summary, stop_process, final_summary, chunk_results,
                   reduce_calls, reduce_input, order>>
    /\ UNCHANGED <<map_calls, reduce_prompt, reduce_output>>
    /\ UNCHANGED <<chunkVars, cacheVars, textVars>>

\* futures = {executor.submit(summarize_chunk_with_id, i, chunk, ...): i ...}
Submit ==
    /\ ppc = "submit"
    /\ fut' = [k \in 1..nchunks |-> "queued"]
    /\ fres' = [k \in 1..nchunks |-> NoResult]
    /\ map_calls' = [k \in 1..nchunks |-> 0]
    /\ ppc' = "loop"
    /\ UNCHANGED <<driver, nchunks, has_callback, yielded, loop_i, results,
                   combined_summary, stop_process, final_summary, chunk_results,
                   reduce_calls, reduce_input, retval, progress, order>>
    /\ UNCHANGED <<reduce_prompt, reduce_output>>
    /\ UNCHANGED <<chunkVars, cacheVars, textVars>>

\* a worker takes the task of chunk k: its inference call is issued (the
\* default pool has at least five workers, more than the chunks tried)
StartTask(k) ==
    /\ ppc \in {"loop", "cancel_exit"}
    /\ fut[k] = "queued"
    /\ fut' = [fut EXCEPT ![k] = "running"]
    /\ map_calls' = [map_calls EXCEPT ![k] = @ + 1]
    /\ UNCHANGED <<reduce_prompt, reduce_output>>
    /\ UNCHANGED <<driver, nchunks, has_callback, fres, yielded, loop_i, results,
                   combined_summary, stop_process, final_summary, chunk_results, ppc,
                   reduce_calls, reduce_input, retval, progress, order>>
    /\ UNCHANGED <<chunkVars, cacheVars, textVars>>

\* summarize_chunk_with_id(k, ...) returns (k, text), the text being the
\* backend's answer or query_llama3's failure value
TaskReturns(k) ==
    /\ ppc \in {"loop", "cancel_exit"}
    /\ fut[k] = "running"
    /\ \E r \in Responses \cup {QueryFailed} : fres' = [fres EXCEPT ![k] = <<k, r>>]
    /\ fut' = [fut EXCEPT ![k] = "returned"]
    /\ UNCHANGED <<driver, nchunks, has_callback, yielded, loop_i, results,
                   combined_summary, stop_process, final_summary, chunk_results, ppc,
                   reduce_calls, reduce_input, retval, progress, order>>
    /\ UNCHANGED <<map_calls, reduce_prompt, reduce_output>>
    /\ UNCHANGED <<chunkVars, cacheVars, textVars>>

\* the task of chunk k raises
TaskRaises(k) ==
    /\ ppc \in {"loop", "cancel_exit"}
    /\ fut[k] = "running"
    /\ fut' = [fut EXCEPT ![k] = "raised"]
    /\ UNCHANGED <<driver, nchunks, has_callback, fres, yielded, loop_i, results,
                   combined_summary, stop_process, final_summary, chunk_results, ppc,
                   reduce_calls, reduce_input, retval, progress, order>>
    /\ UNCHANGED <<map_calls, reduce_prompt, reduce_output>>
    /\ UNCHANGED <<chunkVars, cacheVars, textVars>>

\* the user asks to stop while main runs
SetStop ==
    /\ driver = "main"
    /\ ppc \in {"submit", "loop", "assemble", "check_stop"}
    /\ ~stop_process
    /\ stop_process' = TRUE
    /\ UNCHANGED <<driver, nchunks, has_callback, fut, fres, yielded, loop_i, results,
                   combined_summary, final_summary, chunk_results, ppc, reduce_calls,
                   reduce_input, retval, progress, order>>
    /\ UNCHANGED <<map_calls, reduce_prompt, reduce_output>>
    /\ UNCHANGED <<chunkVars, cacheVars, textVars>>

\* main, one turn of the loop over as_completed(futures) (lines 181-192)
MainLoop(k) ==
    /\ driver = "main" /\ ppc = "loop"
    /\ k \notin yielded /\ fut[k] \in Finished
    /\ yielded' = yielded \cup {k}
    /\ loop_i' = loop_i + 1
    /\ order' = Append(order, k)
    /\ IF stop_process
       THEN /\ ppc' = "cancel_exit"
            /\ UNCHANGED results
       ELSE /\ results' = Append(results,
                                 IF fut[k] = "returned" THEN fres[k]
                                 ELSE <<loop_i + 1, ErrorText(loop_i + 1)>>)
            /\ UNCHANGED ppc
    /\ UNCHANGED <<driver, nchunks, has_callback, fut, fres, combined_summary,
                   stop_process, final_summary, chunk_results, reduce_calls,
                   reduce_input, retval, progress>>
    /\ UNCHANGED <<map_calls, reduce_prompt, reduce_output>>
    /\ UNCHANGED <<chunkVars, cacheVars, textVars>>

\* summarize_pdf_report, one turn of the loop over as_completed(futures)
\* (lines 179-186): a raised future is printed, nothing is appended
ReportLoop(k) ==
    /\ driver = "summarize_pdf_report" /\ ppc = "loop"
    /\ k \notin yielded /\ fut[k] \in Finished
    /\ yielded' = yielded \cup {k}
    /\ loop_i' = loop_i + 1
    /\ order' = Append(order, k)
    /\ IF fut[k] = "returned"
       THEN /\ results' = Append(results, fres[k])
            /\ progress' = Notify(<<"chunk", fres[k][1]>>)
       ELSE UNCHANGED <<results, progress>>
    /\ UNCHANGED <<driver, nchunks, has_callback, fut, fres, combined_summary,
                   stop_process, final_summary, chunk_results, ppc, reduce_calls,
                   reduce_input, retval>>
    /\ UNCHANGED <<map_calls, reduce_prompt, reduce_output>>
    /\ UNCHANGED <<chunkVars, cacheVars, textVars>>

\* a wrong end of the loop: the first completion is enough
LoopEndsEarly ==
    /\ ppc = "loop"
    /\ yielded # {}
    /\ ppc' = "assemble"
    /\ UNCHANGED <<driver, nchunks, has_callback, fut, fres, yielded, loop_i, results,
                   combined_summary, stop_process, final_summary, chunk_results,
                   reduce_calls, reduce_input, retval, progress, order>>
    /\ UNCHANGED <<map_calls, reduce_prompt, reduce_output>>
    /\ UNCHANGED <<chunkVars, cacheVars, textVars>>

\* as_completed is exhausted; leaving the with block waits for no one
LoopEnds ==
    /\ ppc = "loop"
    /\ yielded = 1..nchunks
    /\ ppc' = "assemble"
    /\ UNCHANGED <<driver, nchunks, has_callback, fut, fres, yielded, loop_i, results,
                   combined_summary, stop_process, final_summary, chunk_results,
                   reduce_calls, reduce_input, retval, progress, order>>
    /\ UNCHANGED <<map_calls, reduce_prompt, reduce_output>>
    /\ UNCHANGED <<chunkVars, cacheVars, textVars>>

\* main returns inside the with block: ThreadPoolExecutor.__exit__ is
\* shutdown(wait=True), which returns when every submitted task has ended
CancelExit ==
    /\ ppc = "cancel_exit"
    /\ \A k \in 1..nchunks : fut[k] \in Finished
    /\ ppc' = "stopped"
    /\ UNCHANGED <<driver, nchunks, has_callback, fut, fres, yielded, loop_i, results,
                   combined_summary, stop_process, final_summary, chunk_results,
                   reduce_calls, reduce_input, retval, progress, order>>
    /\ UNCHANGED <<map_calls, reduce_prompt, reduce_output>>
    /\ UNCHANGED <<chunkVars, cacheVars, textVars>>

\* results.sort(); combined_summary = ...; main also stores chunk_results
Assemble ==
    /\ ppc = "assemble"
    /\ results' = list_sort(results)
    /\ combined_summary' = join_summaries(results')
    /\ IF driver = "main"
       THEN /\ chunk_results' = results'
            /\ ppc' = "check_stop"
            /\ UNCHANGED progress
       ELSE /\ progress' = Notify(<<"final", 0>>)
            /\ ppc' = "reduce"
            /\ UNCHANGED chunk_results
    /\ UNCHANGED <<driver, nchunks, has_callback, fut, fres, yielded, loop_i,
                   stop_process, final_summary, reduce_calls, reduce_input, retval, order>>
    /\ UNCHANGED <<map_calls, reduce_prompt, reduce_output>>
    /\ UNCHANGED <<chunkVars, cacheVars, textVars>>

\* a wrong check: a stop request is seen and not acted on
CheckStopSpins ==
    /\ driver = "main" /\ ppc = "check_stop"
    /\ ppc' = IF stop_process THEN "check_stop" ELSE "reduce"
    /\ UNCHANGED <<driver, nchunks, has_callback, fut, fres, yielded, loop_i, results,
                   combined_summary, stop_process, final_summary, chunk_results,
                   reduce_calls, reduce_input, retval, progress, order>>
    /\ UNCHANGED <<map_calls, reduce_prompt, reduce_output>>
    /\ UNCHANGED <<chunkVars, cacheVars, textVars>>

\* main: if st.session_state.stop_process: ... return (lines 199-201)
CheckStop ==
    /\ driver = "main" /\ ppc = "check_stop"
    /\ ppc' = IF stop_process THEN "stopped" ELSE "reduce"
    /\ UNCHANGED <<driver, nchunks, has_callback, fut, fres, yielded, loop_i, results,
                   combined_summary, stop_process, final_summary, chunk_results,
                   reduce_calls, reduce_input, retval, progress, order>>
    /\ UNCHANGED <<map_calls, reduce_prompt, reduce_output>>
    /\ UNCHANGED <<chunkVars, cacheVars, textVars>>

\* the final prompt is built and the reduce-stage inference call is issued;
\* main appends the page limit when page_mode is "Custom (Page Limit)"
ReduceCall ==
    /\ ppc = "reduce"
    /\ reduce_calls' = reduce_calls + 1
    /\ reduce_input' = combined_summary
    /\ \E custom \in (IF driver = "main" THEN BOOLEAN ELSE {FALSE}) :
          LET final_prompt == str_replace(final_prompt_template, Placeholder, combined_summary)
                              \o (IF custom THEN PageLimitText ELSE <<>>)
          IN  reduce_prompt' = IF driver = "main"
                               THEN MainPrompt(final_prompt, combined_summary)
                               ELSE final_prompt
    /\ ppc' = "reduce_wait"
    /\ UNCHANGED <<map_calls, reduce_output>>
    /\ UNCHANGED <<driver, nchunks, has_callback, fut, fres, yielded, loop_i, results,
                   combined_summary, stop_process, final_summary, chunk_results,
                   retval, progress, order>>
    /\ UNCHANGED <<chunkVars, cacheVars, textVars>>

\* the reduce-stage call returns the backend's answer or the failure value
ReduceReturns ==
    /\ ppc = "reduce_wait"
    /\ \E r \in Responses \cup {QueryFailed} :
          /\ reduce_output' = r
          /\ IF driver = "main"
             THEN final_summary' = r /\ UNCHANGED <<retval, progress>>
             ELSE retval' = r /\ progress' = Notify(<<"done", 0>>) /\ UNCHANGED final_summary
    /\ ppc' = "done"
    /\ UNCHANGED <<map_calls, reduce_prompt>>
    /\ UNCHANGED <<driver, nchunks, has_callback, fut, fres, yielded, loop_i, results,
                   combined_summary, stop_process, chunk_results, reduce_calls,
                   reduce_input, order>>
    /\ UNCHANGED <<chunkVars, cacheVars, textVars>>

PipeNext ==
    \/ MainBegin
    \/ ReportBegin
    \/ Submit
    \/ \E k \in 1..nchunks : StartTask(k)
    \/ \E k \in 1..nchunks : TaskReturns(k)
    \/ \E k \in 1..nchunks : TaskRaises(k)
    \/ SetStop
    \/ \E k \in 1..nchunks : MainLoop(k)
    \/ \E k \in 1..nchunks : ReportLoop(k)
    \/ LoopEnds
    \/ CancelExit
    \/ Assemble
    \/ CheckStop
    \/ ReduceCall
    \/ ReduceReturns

SpecPipeline == PipeInit /\ [][PipeNext]_vars

\* the interpreter goes on with the run, the pool's workers take the queued
\* tasks, and every inference call issued comes back (the backend answers or
\* the request fails); the user's stop request is under no obligation
PipeFairness ==
    /\ WF_vars(MainBegin) /\ WF_vars(ReportBegin) /\ WF_vars(Submit)
    /\ \A k \in 1..MaxChunks : WF_vars(k \in 1..nchunks /\ StartTask(k))
    /\ \A k \in 1..MaxChunks : WF_vars(k \in 1..nchunks /\ (TaskReturns(k) \/ TaskRaises(k)))
    /\ WF_vars(\E k \in 1..nchunks : MainLoop(k))
    /\ WF_vars(\E k \in 1..nchunks : ReportLoop(k))
    /\ WF_vars(LoopEnds) /\ WF_vars(CancelExit) /\ WF_vars(Assemble)
    /\ WF_vars(CheckStop) /\ WF_vars(ReduceCall) /\ WF_vars(ReduceReturns)

SpecPipelineFair == PipeInit /\ [][PipeNext]_vars /\ PipeFairness

\* the texts tried: every text of at most MaxLen characters, and the regular
\* texts "a a ... a" of up to MaxWordCount words
ShortTexts == UNION {[1..n -> Alphabet] : n \in 0..MaxLen}
RegularText(n) == str_join(<<" ">>, [k \in 1..n |-> <<"a">>])
Texts == ShortTexts \cup {RegularText(n) : n \in 0..MaxWordCount}

ChunkInit ==
    /\ text \in Texts
    /\ max_words \in 1..MaxMaxWords
    /\ min_words \in 0..MaxMinWords
    /\ chunks = <<>>
    /\ cpc = "start"
    /\ CacheIdle
    /\ PipeIdle
    /\ TextIdle

\* chunks = split_text_smart(text, max_words, min_words)
CallSplit ==
    /\ cpc = "start"
    /\ chunks' = split_text_smart(text, max_words, min_words)
    /\ cpc' = "done"
    /\ UNCHANGED <<text, max_words, min_words>>
    /\ UNCHANGED <<cacheVars, pipeVars, textVars>>

ChunkNext == CallSplit

SpecChunk == ChunkInit /\ [][ChunkNext]_vars

(***************************************************************************)
(* The text stages before the chunker: deduplicate_ocr, clean_text and     *)
(* their use by summarize_pdf_report (lines 150-164) and main (157-168).   *)
(***************************************************************************)
MaxPdfLen == 2       \* longest text layer, in characters
MaxOcrLen == 3       \* longest OCR text, in characters

\* a character outside \x00-\x7F (the dash of the unit test)
EmDash == "U+2014"
NonAsciiChars == {EmDash}
SpaceChars == {" ", "\n", "\r", "\t"}

TextAlphabet == {"A", "a", " ", "\n", EmDash}

\* str.lower for one character
LowerChar(c) == IF c = "A" THEN "a" ELSE IF c = "B" THEN "b" ELSE c

\* s.lower()
str_lower(s) == [i \in 1..Len(s) |-> LowerChar(s[i])]

RECURSIVE SplitLinesFrom(_, _, _, _)
SplitLinesFrom(s, i, cur, acc) ==
    IF i > Len(s)
    THEN IF cur = <<>> THEN acc ELSE Append(acc, cur)
    ELSE IF s[i] = "\n"
         THEN SplitLinesFrom(s, i + 1, <<>>, Append(acc, cur))
         ELSE SplitLinesFrom(s, i + 1, Append(cur, s[i]), acc)

\* s.splitlines(): the lines without their terminators; a terminator at the
\* very end opens no further line
str_splitlines(s) == SplitLinesFrom(s, 1, <<>>, <<>>)

\* hashlib.md5(...).hexdigest(): equal digests for equal strings only
md5(s) == <<"md5">> \o s

\* a wrong fingerprint: the line as it is
hash_line_exact(line) == md5(line)

\* hash_line(line) = md5(line.lower().strip())
hash_line(line) == md5(str_strip(str_lower(line)))

\* deduplicate_ocr(text_pdf, text_ocr)
deduplicate_ocr(tpdf, tocr) ==
    LET pdf_lines == str_splitlines(tpdf)
        pdf_hashes == {hash_line(pdf_lines[i]) :
                          i \in {j \in 1..Len(pdf_lines) : str_strip(pdf_lines[j]) # <<>>}}
        keep(line) == hash_line(line) \notin pdf_hashes
    IN  str_join(<<"\n">>, SelectSeq(str_splitlines(tocr), keep))

\* pattern.sub(" ", s) for a pattern "one or more characters of class": every
\* maximal run of such characters becomes one space
RECURSIVE SubRuns(_, _, _)
SubRuns(s, class, i) ==
    IF i > Len(s) THEN <<>>
    ELSE IF s[i] \notin class THEN <<s[i]>> \o SubRuns(s, class, i + 1)
    ELSE IF i > 1 /\ s[i - 1] \in class THEN SubRuns(s, class, i + 1)
    ELSE <<" ">> \o SubRuns(s, class, i + 1)

\* a wrong normalization: the ends are not stripped
clean_text_unstripped(t) == SubRuns(SubRuns(t, NonAsciiChars, 1), SpaceChars, 1)

\* clean_text(text) = multi_space_re.sub(" ", non_ascii_re.sub(" ", text)).strip()
clean_text(t) == str_strip(SubRuns(SubRuns(t, NonAsciiChars, 1), SpaceChars, 1))

\* the defaults of split_text_smart
DefaultMaxWords == 2000
DefaultMinWords == 200

PdfTexts == UNION {[1..n -> TextAlphabet] : n \in 0..MaxPdfLen}
OcrTexts == UNION {[1..n -> TextAlphabet] : n \in 0..MaxOcrLen}

\* a run of either driver is about to extract the text
ExtractInit ==
    /\ driver \in {"summarize_pdf_report", "main"}
    /\ text_pdf = <<>> /\ text_ocr = <<>> /\ clean_ocr = <<>> /\ combined = <<>>
    /\ cleaned = <<>> /\ tpc = "extract"
    /\ PipeUnstarted
    /\ ChunkIdle
    /\ CacheIdle

\* text_pdf = extract_text_from_pdf(pdf_path): whatever the text layer holds
ExtractPdf ==
    /\ tpc = "extract"
    /\ text_pdf' \in PdfTexts
    /\ tpc' = "ocr"
    /\ UNCHANGED <<text_ocr, clean_ocr, combined, cleaned>>
    /\ UNCHANGED <<chunkVars, cacheVars, pipeVars>>

\* text_ocr = load_or_generate_ocr(pdf_path): the cached or the fresh OCR text
LoadOcr ==
    /\ tpc = "ocr"
    /\ text_ocr' \in OcrTexts
    /\ tpc' = "dedup"
    /\ UNCHANGED <<text_pdf, clean_ocr, combined, cleaned>>
    /\ UNCHANGED <<chunkVars, cacheVars, pipeVars>>

\* clean_ocr = deduplicate_ocr(text_pdf, text_ocr)
Dedup ==
    /\ tpc = "dedup"
    /\ clean_ocr' = deduplicate_ocr(text_pdf, text_ocr)
    /\ tpc' = "combine"
    /\ UNCHANGED <<text_pdf, text_ocr, combined, cleaned>>
    /\ UNCHANGED <<chunkVars, cacheVars, pipeVars>>

\* summarize_pdf_report: combined = clean_text(text_pdf + "\n" + clean_ocr);
\* main: combined_text = text_pdf + "\n" + clean_ocr
Combine ==
    /\ tpc = "combine"
    /\ combined' = IF driver = "summarize_pdf_report"
                   THEN clean_text(text_pdf \o <<"\n">> \o clean_ocr)
                   ELSE text_pdf \o <<"\n">> \o clean_ocr
    /\ tpc' = "chunk"
    /\ UNCHANGED <<text_pdf, text_ocr, clean_ocr, cleaned>>
    /\ UNCHANGED <<chunkVars, cacheVars, pipeVars>>

\* chunks = split_text_smart(combined)
Chunk ==
    /\ tpc = "chunk"
    /\ chunks' = split_text_smart(combined, DefaultMaxWords, DefaultMinWords)
    /\ tpc' = "done"
    /\ UNCHANGED <<text, max_words, min_words, cpc>>
    /\ UNCHANGED <<text_pdf, text_ocr, clean_ocr, combined, cleaned>>
    /\ UNCHANGED <<cacheVars, pipeVars>>

ExtractNext == ExtractPdf \/ LoadOcr \/ Dedup \/ Combine \/ Chunk

SpecExtract == ExtractInit /\ [][ExtractNext]_vars

\* the texts clean_text is tried on
CleanAlphabet == {"a", " ", "\n", EmDash}
CleanTexts == UNION {[1..n -> CleanAlphabet] : n \in 0..MaxLen}

CleanInit ==
    /\ text \in CleanTexts
    /\ max_words = 1 /\ min_words = 0 /\ chunks = <<>> /\ cpc = "off"
    /\ text_pdf = <<>> /\ text_ocr = <<>> /\ clean_ocr = <<>> /\ combined = <<>>
    /\ cleaned = <<>> /\ tpc = "clean"
    /\ CacheIdle
    /\ PipeIdle

\* cleaned = clean_text(text)
CallClean ==
    /\ tpc = "clean"
    /\ cleaned' = clean_text(text)
    /\ tpc' = "cleaned"
    /\ UNCHANGED <<text_pdf, text_ocr, clean_ocr, combined>>
    /\ UNCHANGED <<chunkVars, cacheVars, pipeVars>>

CleanNext == CallClean

SpecClean == CleanInit /\ [][CleanNext]_vars

(***************************************************************************)
(* Claims about split_text_smart (under SpecChunk).                        *)
(***************************************************************************)
\* the word count of each chunk
ChunkSizes == [i \in 1..Len(chunks) |-> Len(str_split(chunks[i]))]

RECURSIVE SumSeq(_, _)
SumSeq(ns, i) == IF i > Len(ns) THEN 0 ELSE ns[i] + SumSeq(ns, i + 1)

InputWords == str_split(text)
WordQuot == Len(InputWords) \div max_words
WordRem == Len(InputWords) % max_words

\* C2: the chunks partition the input's word sequence: the words of the chunks,
\* concatenated in chunk order, are the input's words in order; the chunk word
\* counts sum to the input word count; an input with no word yields no chunk.
C2_ChunksPartitionWords ==
    cpc = "done" =>
        /\ ConcatAll([i \in 1..Len(chunks) |-> str_split(chunks[i])], 1) = InputWords
        /\ SumSeq(ChunkSizes, 1) = Len(InputWords)
        /\ (InputWords = <<>> => chunks = <<>>)

C2_Witness ==
    /\ cpc = "done"
    /\ Len(chunks) >= 1
    /\ ChunkSizes[Len(chunks)] > max_words
    /\ str_join(<<" ">>, chunks) # text

\* C3: for every input text holding a word, split_text_smart returns at least
\* one chunk and every returned chunk, the last included, has at most
\* max_words words.
C3_EveryChunkWithinMax ==
    (cpc = "done" /\ InputWords # <<>>) =>
        /\ Len(chunks) >= 1
        /\ \A i \in 1..Len(chunks) : ChunkSizes[i] <= max_words

\* C4: every chunk but the last has at most max_words words; the last has more
\* only when a trailing remainder of fewer than min_words words was merged
\* into it, and then it has max_words plus the remainder's words.
C4_OnlyLastExceedsByMerge ==
    cpc = "done" =>
        /\ \A i \in 1..(Len(chunks) - 1) : ChunkSizes[i] <= max_words
        /\ (chunks # <<>> /\ ChunkSizes[Len(chunks)] > max_words) =>
              /\ WordRem > 0
              /\ WordRem < min_words
              /\ WordQuot >= 1
              /\ ChunkSizes[Len(chunks)] = max_words + WordRem

C4_Witness ==
    /\ cpc = "done"
    /\ Len(chunks) >= 2
    /\ ChunkSizes[Len(chunks)] > max_words
    /\ ChunkSizes[Len(chunks)] = max_words + WordRem

\* the chunk sizes C5 states for n words, q = n div max_words, r = n mod max_words
ExpectedSizes ==
    IF WordRem = 0 THEN [i \in 1..WordQuot |-> max_words]
    ELSE IF WordRem >= min_words \/ WordQuot = 0
         THEN [i \in 1..(WordQuot + 1) |-> IF i <= WordQuot THEN max_words ELSE WordRem]
         ELSE [i \in 1..WordQuot |-> IF i < WordQuot THEN max_words ELSE max_words + WordRem]

FoundHit ==
    /\ pre[1].ocr_cache.exists
    /\ pre[1].hash_file.exists
    /\ str_strip(ReadText(pre[1].hash_file.data)) = get_file_hash(hashed[1])
    /\ str_strip(ReadText(pre[1].ocr_cache.data)) # <<>>

\* the call of caller 1 follows a completed call on the same bytes, and the
\* cache was left alone in between
SecondCallSameBytes ==
    /\ lpc[1] = "done"
    /\ pre[1].prev.called
    /\ pre[1].prev.fresh
    /\ pre[1].prev.doc = hashed[1]

\* C6, first part: a call returns the stored text without invoking page OCR
\* exactly when both cache files exist, the stored hash is the file's current
\* hash and the stored text is not blank.
C6_HitExactly ==
    lpc[1] = "done" =>
        /\ (ocr_calls[1] = 0) <=> FoundHit
        /\ FoundHit => ret[1] = ReadText(pre[1].ocr_cache.data)

\* C6, second part: in every other case the call invokes page OCR once,
\* overwrites both cache files with the new text and the current hash, and
\* returns the new text.
C6_MissRecomputes ==
    (lpc[1] = "done" /\ ~FoundHit) =>
        /\ ocr_calls[1] = 1
        /\ ret[1] = extract_text_from_images(hashed[1])
        /\ prev.fresh =>
              /\ ocr_cache.exists /\ ReadText(ocr_cache.data) = ret[1]
              /\ hash_file.exists /\ ReadText(hash_file.data) = get_file_hash(hashed[1])

\* C6 as stated: both parts, and hence a second call on unchanged bytes
\* returns the first call's text with no recomputation.
C6_SecondCallNeverRecomputes ==
    /\ C6_HitExactly
    /\ C6_MissRecomputes
    /\ SecondCallSameBytes => (ret[1] = pre[1].prev.ret /\ ocr_calls[1] = 0)

\* C6 as amended: both parts, and a second call on unchanged bytes returns
\* the first call's text, with no recomputation when that text is not blank
\* (a blank text, that of a document with no page, is computed again).
C6_SecondCallReusesNonBlank ==
    /\ C6_HitExactly
    /\ C6_MissRecomputes
    /\ SecondCallSameBytes =>
          /\ ret[1] = pre[1].prev.ret
          /\ str_strip(pre[1].prev.ret) # <<>> => ocr_calls[1] = 0

C6_Witness ==
    /\ SecondCallSameBytes
    /\ changed
    /\ ocr_calls[1] = 0
    /\ ret[1] = pre[1].prev.ret
    /\ Len(hashed[1].pages) >= 1

\* C7: two runs on the same document (its bytes never change) with no lock:
\* under every interleaving, once both runs have finished the cache holds a
\* self-consistent pair: the stored text is the OCR text of the bytes whose
\* hash is stored.
C7_ConcurrentRunsLeaveConsistentPair ==
    ((\A p \in Procs : lpc[p] = "done") /\ ~changed) =>
        /\ ocr_cache.exists /\ hash_file.exists
        /\ str_strip(ReadText(hash_file.data)) = get_file_hash(file)
        /\ ReadText(ocr_cache.data) = extract_text_from_images(file)

\* both runs observed a miss and both recomputed
C7_Witness ==
    /\ \A p \in Procs : lpc[p] = "done" /\ ocr_calls[p] = 1
    /\ ~changed
    /\ Len(file.pages) >= 1
    /\ ReadText(ocr_cache.data) = extract_text_from_images(file)

(***************************************************************************)
(* Claims about the map/reduce summarization (under SpecPipeline).         *)
(***************************************************************************)
\* C19: under every interleaving of concurrent load_or_generate_ocr runs that
\* share one cache basename while the bytes at the path change, whenever a
\* call returns on the hit path the returned text is the OCR text of the bytes
\* that call fingerprinted: no stored hash is paired with non-blank text
\* computed from other bytes and later served as a hit.
C19_HitServesFingerprintedBytes ==
    \A p \in Procs :
        (lpc[p] = "done" /\ ocr_calls[p] = 0) =>
            ret[p] = extract_text_from_images(hashed[p])

\* the results have been reassembled and the run was not cancelled
Reassembled == ppc \in {"check_stop", "reduce", "reduce_wait", "done"} /\ nchunks >= 1

NoTaskRaised == \A k \in 1..nchunks : fut[k] = "returned"

\* the summaries produced for chunks 1..N, joined by a blank line in index order
SummariesInIndexOrder == str_join(<<"\n\n">>, [k \in 1..nchunks |-> fres[k][2]])

\* C1: for N >= 1 chunks and every completion order of the map-stage calls (no
\* failure, no cancellation), the combined text handed to the reduce stage is
\* the N chunk summaries joined by a blank line in ascending chunk-index order,
\* each the summary produced for the chunk of that index.
C1_ReassemblyInIndexOrder ==
    (Reassembled /\ NoTaskRaised) =>
        /\ \A k \in 1..nchunks : fres[k][1] = k
        /\ combined_summary = SummariesInIndexOrder
        /\ reduce_calls >= 1 => reduce_input = SummariesInIndexOrder

\* the calls completed in reverse order and the reduce call was issued
C1_Witness ==
    /\ reduce_calls = 1 /\ nchunks = 3 /\ NoTaskRaised
    /\ order = <<3, 2, 1>>
    /\ fres[1][2] # fres[2][2] /\ fres[2][2] # fres[3][2]
    /\ reduce_input = SummariesInIndexOrder

\* the map stage is over without a cancellation
MapStageOver == ppc \in {"assemble", "check_stop", "reduce", "reduce_wait", "done"}

\* C8: when the call for chunk k fails, the other calls are still collected and
\* the results hold, for index k, an error-text entry carrying chunk index k,
\* so that every index 1..N has exactly one entry.
C8_FailedChunkKeepsItsIndex ==
    (MapStageOver /\ nchunks >= 1) =>
        \A k \in 1..nchunks :
            /\ Cardinality({j \in 1..Len(results) : results[j][1] = k}) = 1
            /\ fut[k] = "raised" => \E j \in 1..Len(results) : results[j] = <<k, ErrorText(k)>>

\* the cancellation flag was observed set at a check
CancelObserved == ppc \in {"cancel_exit", "stopped"}

\* C9: once the cancellation flag is observed set at a check of the map stage
\* or at the check after reassembly, the reduce-stage call is never issued and
\* the stored final summary stays empty.
C9_CancelledRunIssuesNoReduce ==
    CancelObserved => (reduce_calls = 0 /\ final_summary = <<>>)

\* cancelled in the middle of the completion sequence, the run has ended
C9_Witness ==
    /\ ppc = "stopped" /\ stop_process
    /\ nchunks = 3 /\ Len(results) = 1 /\ Cardinality(yielded) = 2
    /\ reduce_calls = 0 /\ final_summary = <<>>

\* C10: when a run is cancelled after k >= 1 completions were appended to the
\* results, those k summaries are stored in the chunk-results state; and all N
\* are stored when the final reduction call fails.
C10_PartialResultsKept ==
    /\ (driver = "main" /\ CancelObserved /\ Len(results) >= 1)
          => \A j \in 1..Len(results) :
                \E m \in 1..Len(chunk_results) : chunk_results[m] = results[j]
    /\ (driver = "main" /\ ppc = "done" /\ final_summary = QueryFailed)
          => (Len(chunk_results) = nchunks /\ chunk_results = results)

\* the value the run gives back: main stores it, summarize_pdf_report returns it
RunResult == IF driver = "main" THEN final_summary ELSE retval

\* C11: in every run (summarize_pdf_report and main) whose chunk list is empty
\* no inference call is issued at all, neither map nor reduce, and the result
\* is the fixed "no content extracted" value.
C11_EmptyRunIssuesNoCall ==
    nchunks = 0 =>
        /\ reduce_calls = 0
        /\ \A k \in DOMAIN map_calls : map_calls[k] = 0
        /\ ppc = "done" => RunResult = NoContent

\* C12: in every non-cancelled run over N >= 1 chunks exactly N + 1 inference
\* calls are issued: exactly one map call for each chunk index 1..N and exactly
\* one reduce call, which is issued only after all N map calls have completed
\* and whose result is the final summary.
C12_OneCallPerChunkThenOneReduce ==
    /\ reduce_calls <= 1
    /\ \A k \in DOMAIN map_calls : map_calls[k] <= 1
    /\ (nchunks >= 1 /\ reduce_calls = 1) =>
          \A k \in 1..nchunks : fut[k] \in Finished /\ map_calls[k] = 1
    /\ (nchunks >= 1 /\ ppc = "done") =>
          /\ reduce_calls = 1
          /\ \A k \in 1..nchunks : map_calls[k] = 1
          /\ RunResult = reduce_output

\* a run of main over three chunks has ended with its summary
C12_Witness ==
    /\ ppc = "done" /\ driver = "main" /\ nchunks = 3
    /\ reduce_calls = 1 /\ \A k \in 1..3 : map_calls[k] = 1
    /\ final_summary = reduce_output /\ final_summary \in Responses

\* C13: after the cancellation flag is observed at a check of the map stage,
\* the stage returns control without waiting for the inference calls still in
\* flight: the return can be taken whatever the futures' states are.
C13_CancelReturnsWithoutWaiting ==
    ppc = "cancel_exit" => ENABLED CancelExit

\* the notifications of the chunk completions, in the order of completion
ChunkNotes == [j \in 1..Len(order) |-> <<"chunk", order[j]>>]

\* C14: summarize_pdf_report with a progress sink and N >= 1 chunks, no call
\* failing: the sink receives extraction start, chunking start, the chunk
\* count, then exactly N chunk-completion notifications (one per chunk index,
\* in completion order), then final-summary start, then done; no
\* chunk-completion notification comes after final-summary start; with zero
\* chunks only extraction start and chunking start are emitted.
C14_ProgressSequence ==
    (driver = "summarize_pdf_report" /\ has_callback) =>
        /\ (ppc = "done" /\ nchunks >= 1 /\ NoTaskRaised) =>
              /\ progress = <<<<"extract", 0>>, <<"chunking", 0>>, <<"count", nchunks>>>>
                            \o ChunkNotes \o <<<<"final", 0>>, <<"done", 0>>>>
              /\ Len(order) = nchunks
              /\ {order[j] : j \in 1..Len(order)} = 1..nchunks
        /\ (ppc = "done" /\ nchunks = 0) =>
              progress = <<<<"extract", 0>>, <<"chunking", 0>>>>
        /\ \A i, j \in 1..Len(progress) :
              (i < j /\ progress[i][1] = "final") => progress[j][1] # "chunk"

\* three chunks completed in the order 2, 3, 1 and the run has ended
C14_Witness ==
    /\ ppc = "done" /\ driver = "summarize_pdf_report" /\ has_callback
    /\ nchunks = 3 /\ NoTaskRaised
    /\ order = <<2, 3, 1>>
    /\ Len(progress) = 8 /\ progress[4] = <<"chunk", 2>>

(***************************************************************************)
(* Claims about the text stages (under SpecExtract and SpecClean).         *)
(***************************************************************************)
\* the trimmed lower-cased form of a line
LineForm(line) == str_strip(str_lower(line))

\* the forms of the non-blank lines of the text layer
PdfForms ==
    LET ls == str_splitlines(text_pdf)
    IN  {LineForm(ls[i]) : i \in {j \in 1..Len(ls) : str_strip(ls[j]) # <<>>}}

OcrOnly(line) == LineForm(line) \notin PdfForms

Deduplicated == tpc \in {"combine", "chunk", "done"}

\* C15: deduplicate_ocr returns exactly the lines of ocrText, in their order
\* and unmodified, whose trimmed lower-cased form differs from the trimmed
\* lower-cased form of every non-blank line of pdfText: a line equal to a pdf
\* line up to case and surrounding whitespace is dropped, a line found in the
\* OCR text only is kept.
C15_DedupKeepsOcrOnlyLines ==
    Deduplicated =>
        LET ocr_lines == str_splitlines(text_ocr)
        IN  /\ clean_ocr = str_join(<<"\n">>, SelectSeq(ocr_lines, OcrOnly))
            /\ (\A i \in 1..Len(ocr_lines) : ~OcrOnly(ocr_lines[i])) => clean_ocr = <<>>
            /\ (\A i \in 1..Len(ocr_lines) : OcrOnly(ocr_lines[i]))
                  => clean_ocr = str_join(<<"\n">>, ocr_lines)

\* the line "a" repeats the pdf line "A" and is dropped, the other is kept
C15_Witness ==
    /\ tpc = "done"
    /\ text_pdf = <<"A">>
    /\ text_ocr = <<"a", "\n", EmDash>>
    /\ clean_ocr = <<EmDash>>

HasNonAscii(s) == \E i \in 1..Len(s) : s[i] \in NonAsciiChars

\* C16: clean_text(t) contains no non-ASCII character, no two consecutive
\* whitespace characters and no leading or trailing whitespace; hence
\* clean_text(clean_text(t)) = clean_text(t).
C16_CleanTextNormalForm ==
    tpc = "cleaned" =>
        /\ ~HasNonAscii(cleaned)
        /\ \A i \in 1..Len(cleaned) - 1 : ~(IsSpace(cleaned[i]) /\ IsSpace(cleaned[i + 1]))
        /\ cleaned # <<>> => (~IsSpace(cleaned[1]) /\ ~IsSpace(cleaned[Len(cleaned)]))
        /\ clean_text(cleaned) = cleaned

\* a non-ASCII run next to a space, and a trailing space
C16_Witness ==
    /\ tpc = "cleaned"
    /\ text = <<"a", EmDash, " ", "a", " ">>
    /\ cleaned = <<"a", " ", "a">>

\* C17: in every run (summarize_pdf_report and main) the stages occur in the
\* order extract, cache get, deduplicate, normalize, chunk: the text given to
\* the chunker is the normalized form of pdfText combined with the
\* deduplicated OCR text, so no chunk ever contains a non-ASCII character.
C17_ChunkerGetsNormalizedText ==
    tpc = "done" =>
        /\ combined = clean_text(text_pdf \o <<"\n">> \o deduplicate_ocr(text_pdf, text_ocr))
        /\ chunks = split_text_smart(combined, DefaultMaxWords, DefaultMinWords)
        /\ \A i \in 1..Len(chunks) : ~HasNonAscii(chunks[i])

\* the reduction template with its token replaced by the combined text, once
PromptSubstitutedOnce == <<"Summarize: ">> \o reduce_input \o <<" End.">>

\* C18: the prompt sent for the reduce call is the reduction template with its
\* placeholder token replaced verbatim by the reassembled combined text,
\* followed by the optional appended constraint; the substitution is not
\* recursive, a token inside the combined text is sent unchanged.
C18_ReducePromptSubstitutedOnce ==
    reduce_calls = 1 =>
        reduce_prompt \in {PromptSubstitutedOnce, PromptSubstitutedOnce \o PageLimitText}

(***************************************************************************)
(* Termination of a run (under SpecPipelineFair).                          *)
(***************************************************************************)
\* the run has ended: with its result, or by a cancellation abort
Terminated == ppc = "done" \/ (ppc = "stopped" /\ stop_process)

\* C20: if every dispatched inference call eventually returns, every run over
\* N chunks eventually terminates, with a final summary or by a cancellation
\* abort; and there is no timeout: the map stage reaches reassembly only when
\* no map call is still outstanding, so a call that never returns keeps it
\* from reassembly for ever.
C20_TerminatesIfCallsReturn ==
    /\ <>Terminated
    /\ [](MapStageOver => \A k \in 1..nchunks : fut[k] \in Finished /\ k \in yielded)

\* a run over three chunks, one call failing, has ended with a summary
C20_Witness ==
    /\ ppc = "done" /\ nchunks = 3 /\ reduce_calls = 1
    /\ fut[2] = "raised" /\ fut[1] = "returned" /\ fut[3] = "returned"
    /\ RunResult = reduce_output

=============================================================================
